---- MODULE Spec2Model ----
(***************************************************************************)
(* Model of analysis.py: the LCR-6300 sweep-file parser                    *)
(* read_lcr_csv_lcr6300 and the batch load loop with its synthetic         *)
(* fallback.                                                               *)
(*                                                                         *)
(* Text is modelled as sequences of one-character strings, a file as a     *)
(* sequence of lines.  Numbers are exact rationals <<num, den>> in lowest  *)
(* terms (den > 0); floating-point rounding is not modelled.               *)
(***************************************************************************)
EXTENDS Integers, Sequences, FiniteSets, TLC

VARIABLES
    \* ---- one call of read_lcr_csv_lcr6300 ----
    file,        \* the file at `path`: [exists, lines]
    args,        \* the call's arguments
    pc,          \* position inside the function
    header_idx,  \* 0-based index of the header line, or None
    data_lines,  \* candidate data lines
    col_index,   \* 0-based column to extract
    values,      \* extracted numbers
    result,      \* [kind |-> "ok", vec |-> ...] or [kind |-> <error>]
    \* ---- the batch script ----
    fsys,        \* DATA_DIR: filename -> [exists, lines]
    bpc,         \* position in the script
    fi,          \* index into TO_LOAD of the next file
    loaded,      \* the mapping name -> vector
    log,         \* what the loop printed, in order
    processed    \* names whose table was written

pvars == <<file, args, pc, header_idx, data_lines, col_index, values, result>>
bvars == <<fsys, bpc, fi, loaded, log, processed>>
vars == <<file, args, pc, header_idx, data_lines, col_index, values, result,
          fsys, bpc, fi, loaded, log, processed>>

\* Optional values: None is the empty tuple, Some(x) a one-element tuple.
None == <<>>
Some(x) == <<x>>

-----------------------------------------------------------------------------
(* Rational arithmetic                                                     *)

Abs(n) == IF n < 0 THEN -n ELSE n

RECURSIVE GCD(_, _)
GCD(a, b) == IF b = 0 THEN a ELSE GCD(b, a % b)

Rat(n, d) ==
    LET g == GCD(Abs(n), Abs(d))
        s == IF d < 0 THEN -1 ELSE 1
    IN  <<s * (n \div g), s * (d \div g)>>

RAdd(x, y) == Rat(x[1] * y[2] + y[1] * x[2], x[2] * y[2])
RMul(x, y) == Rat(x[1] * y[1], x[2] * y[2])
RDivInt(x, k) == Rat(x[1], x[2] * k)

RECURSIVE RSum(_)
RSum(s) == IF s = <<>> THEN <<0, 1>> ELSE RAdd(s[1], RSum(Tail(s)))

RECURSIVE Pow10(_)
Pow10(k) == IF k = 0 THEN 1 ELSE 10 * Pow10(k - 1)

-----------------------------------------------------------------------------
(* Python string operations                                                *)

Whitespace == {" ", "\t"}
DigitChars == {"0", "1", "2", "3", "4", "5", "6", "7", "8", "9"}

DigitVal(c) ==
    CASE c = "0" -> 0 [] c = "1" -> 1 [] c = "2" -> 2 [] c = "3" -> 3
      [] c = "4" -> 4 [] c = "5" -> 5 [] c = "6" -> 6 [] c = "7" -> 7
      [] c = "8" -> 8 [] c = "9" -> 9

\* s[:n] for a list or string
Slice(s, n) ==
    LET k == IF n < 0 THEN Len(s) + n ELSE n
        m == IF k < 0 THEN 0 ELSE IF k > Len(s) THEN Len(s) ELSE k
    IN  SubSeq(s, 1, m)

\* s[n:] for n >= 0
Drop(s, n) == SubSeq(s, n + 1, Len(s))

RECURSIVE LStrip(_, _)
LStrip(s, cs) ==
    IF s # <<>> /\ s[1] \in cs THEN LStrip(Tail(s), cs) ELSE s

RECURSIVE RStrip(_, _)
RStrip(s, cs) ==
    IF s # <<>> /\ s[Len(s)] \in cs THEN RStrip(SubSeq(s, 1, Len(s) - 1), cs)
    ELSE s

\* str.strip() and str.strip(chars)
StripChars(s, cs) == RStrip(LStrip(s, cs), cs)
Strip(s) == StripChars(s, Whitespace)

\* sub in s
Contains(s, sub) ==
    \E i \in 1..(Len(s) - Len(sub) + 1) : SubSeq(s, i, i + Len(sub) - 1) = sub

\* s.startswith(c) for a one-character c
StartsWith(s, c) == s # <<>> /\ s[1] = c

\* s.split(',')
RECURSIVE Split(_)
Split(s) ==
    IF \E i \in 1..Len(s) : s[i] = ","
    THEN LET i == CHOOSE k \in 1..Len(s) :
                     s[k] = "," /\ \A m \in 1..(k - 1) : s[m] # ","
         IN  <<SubSeq(s, 1, i - 1)>> \o Split(Drop(s, i))
    ELSE <<s>>

\* p.strip().strip('"')
CleanField(p) == StripChars(Strip(p), {"\""})

\* s.replace('+', '')
RemovePlus(s) == SelectSeq(s, LAMBDA c : c # "+")

RECURSIVE DigitsToInt(_)
DigitsToInt(s) ==
    IF s = <<>> THEN 0
    ELSE 10 * DigitsToInt(SubSeq(s, 1, Len(s) - 1)) + DigitVal(s[Len(s)])

AllDigits(s) == \A i \in 1..Len(s) : s[i] \in DigitChars

FirstIndexIn(s, cs) ==
    IF \E i \in 1..Len(s) : s[i] \in cs
    THEN CHOOSE k \in 1..Len(s) : s[k] \in cs /\ \A m \in 1..(k - 1) : s[m] \notin cs
    ELSE 0

\* float(s) on decimal literals:
\*   [ws] [sign] (digits [. [digits]] | . digits) [(e|E) [sign] digits] [ws]
\* The result is Some(value), or None where float raises ValueError.
ParseFloat(s) ==
    LET t == Strip(s)
        signed == t # <<>> /\ t[1] \in {"+", "-"}
        sgn == IF signed /\ t[1] = "-" THEN -1 ELSE 1
        body == IF signed THEN Tail(t) ELSE t
        e == FirstIndexIn(body, {"e", "E"})
        mant == IF e = 0 THEN body ELSE SubSeq(body, 1, e - 1)
        expo == IF e = 0 THEN <<>> ELSE Drop(body, e)
        esigned == expo # <<>> /\ expo[1] \in {"+", "-"}
        esgn == IF esigned /\ expo[1] = "-" THEN -1 ELSE 1
        edigits == IF esigned THEN Tail(expo) ELSE expo
        dot == FirstIndexIn(mant, {"."})
        ipart == IF dot = 0 THEN mant ELSE SubSeq(mant, 1, dot - 1)
        fpart == IF dot = 0 THEN <<>> ELSE Drop(mant, dot)
        mantOK == AllDigits(ipart) /\ AllDigits(fpart) /\ Len(ipart) + Len(fpart) > 0
        expOK == e = 0 \/ (edigits # <<>> /\ AllDigits(edigits))
        m == DigitsToInt(ipart \o fpart)
        x == esgn * DigitsToInt(edigits) - Len(fpart)
    IN  IF ~(mantOK /\ expOK) THEN None
        ELSE IF x >= 0 THEN Some(Rat(sgn * m * Pow10(x), 1))
        ELSE Some(Rat(sgn * m, Pow10(-x)))

-----------------------------------------------------------------------------
(* read_lcr_csv_lcr6300, phase by phase                                    *)

HeaderWindow == 40

Ok(v) == [kind |-> "ok", vec |-> v, len |-> Len(v)]
\* An exception; len is the value count the reshape message reports.
Err(k, n) == [kind |-> k, vec |-> <<>>, len |-> n]

\* for i, ln in enumerate(lines[:40]): if col_name in ln: header_idx = i; break
RECURSIVE FindHeaderFrom(_, _, _)
FindHeaderFrom(window, i, col_name) ==
    IF i >= Len(window) THEN None
    ELSE IF Contains(window[i + 1], col_name) THEN Some(i)
    ELSE FindHeaderFrom(window, i + 1, col_name)

\* Variant: the search is not limited to the first 40 lines.
FindHeader_WholeFile(lines, col_name) ==
    FindHeaderFrom(lines, 0, col_name)

FindHeader(lines, col_name) ==
    FindHeaderFrom(Slice(lines, HeaderWindow), 0, col_name)

\* header mode: non-blank and first stripped character is '+', a digit or '-'
AcceptAfterHeader(ln) ==
    LET t == Strip(ln)
    IN  t # <<>> /\ (t[1] = "+" \/ t[1] \in DigitChars \/ t[1] = "-")

\* Variant: the fallback scan uses the header-mode test.
AcceptFallback_AnySign(ln) == AcceptAfterHeader(ln)

\* fallback mode: ln.strip().startswith('+')
AcceptFallback(ln) == StartsWith(Strip(ln), "+")

CollectDataLines(lines, hidx) ==
    IF hidx # None
    THEN SelectSeq(Drop(lines, hidx[1] + 1), AcceptAfterHeader)
    ELSE SelectSeq(lines, AcceptFallback)

\* cols.index(col_name), 0-based; called only when col_name in cols
RECURSIVE IndexOf(_, _, _)
IndexOf(cols, x, i) == IF cols[i + 1] = x THEN i ELSE IndexOf(cols, x, i + 1)

CleanFields(ln) ==
    LET raw == Split(ln) IN [k \in 1..Len(raw) |-> CleanField(raw[k])]

\* Variant: a header field matches when it contains the label.
ColIndex_Substring(lines, hidx, col_name, fallback_col_index) ==
    IF hidx = None THEN fallback_col_index
    ELSE LET cols == CleanFields(lines[hidx[1] + 1])
             hits == { k \in 1..Len(cols) : Contains(cols[k], col_name) }
         IN  IF hits # {}
             THEN (CHOOSE k \in hits : \A m \in hits : k <= m) - 1
             ELSE fallback_col_index

ColIndex(lines, hidx, col_name, fallback_col_index) ==
    IF hidx = None THEN fallback_col_index
    ELSE LET cols == CleanFields(lines[hidx[1] + 1])
         IN  IF \E k \in 1..Len(cols) : cols[k] = col_name
             THEN IndexOf(cols, col_name, 0)
             ELSE fallback_col_index

\* Variant: a short row is padded and contributes 0.
RowValue_ShortAsZero(ln, cidx) ==
    LET parts == CleanFields(ln)
    IN  IF Len(parts) <= cidx THEN <<(<<0, 1>>)>>
        ELSE LET valstr == parts[cidx + 1]
                 v1 == ParseFloat(valstr)
             IN  IF v1 # None THEN v1 ELSE ParseFloat(RemovePlus(valstr))

\* The body of the loop over data_lines: what one line appends to values.
RowValue(ln, cidx) ==
    LET parts == CleanFields(ln)
    IN  IF Len(parts) <= cidx THEN <<>>
        ELSE LET valstr == parts[cidx + 1]
                 v1 == ParseFloat(valstr)
             IN  IF v1 # None THEN v1 ELSE ParseFloat(RemovePlus(valstr))

RECURSIVE ExtractValues(_, _)
ExtractValues(dl, cidx) ==
    IF dl = <<>> THEN <<>>
    ELSE RowValue(dl[1], cidx) \o ExtractValues(Tail(dl), cidx)

\* Variant: column-major (Fortran-order) fill.
Reshape2D_ColMajor(v, rows, cols) ==
    [r \in 1..rows |-> [c \in 1..cols |-> v[(c - 1) * rows + r]]]

\* np.array(v).reshape((rows, cols))
Reshape2D(v, rows, cols) ==
    [r \in 1..rows |-> [c \in 1..cols |-> v[(r - 1) * cols + c]]]

\* m.T for a rows x cols matrix
Transpose(m, rows, cols) ==
    [c \in 1..cols |-> [r \in 1..rows |-> m[r][c]]]

\* Variant: m.mean(axis=0).
MeanAxis0(m) ==
    [c \in 1..Len(m[1]) |->
        RDivInt(RSum([r \in 1..Len(m) |-> m[r][c]]), Len(m))]

\* m.mean(axis=1)
MeanAxis1(m) == [j \in 1..Len(m) |-> RDivInt(RSum(m[j]), Len(m[j]))]

Average(v, ncols, num_freq, scale) ==
    LET mat == Transpose(Reshape2D(v, ncols, num_freq), ncols, num_freq)
        mean == MeanAxis1(mat)
    IN  [j \in 1..Len(mean) |-> RMul(mean[j], scale)]

\* Variant: trim_first_n truncates before the first repeat count.
ReshapeOutcome_TrimAlways(v, num_freq, trim_first_n, scale) ==
    LET v1 == IF trim_first_n # None THEN Slice(v, trim_first_n[1]) ELSE v
        ncols == Len(v1) \div num_freq
    IN  IF ncols = 0 THEN Err("NotEnoughRows", Len(v1))
        ELSE Ok(Average(Slice(v1, ncols * num_freq), ncols, num_freq, scale))

\* lines 110-121
ReshapeOutcome(v, num_freq, trim_first_n, scale) ==
    LET ncols0 == Len(v) \div num_freq
        retry == ncols0 = 0 /\ trim_first_n # None
        v1 == IF retry THEN Slice(v, trim_first_n[1]) ELSE v
        ncols == IF retry THEN Len(v1) \div num_freq ELSE ncols0
    IN  IF ncols = 0 THEN Err("NotEnoughRows", Len(v1))
        ELSE Ok(Average(Slice(v1, ncols * num_freq), ncols, num_freq, scale))

\* Variant: the empty-values check is missing.
ValuesOutcome_NoEmptyCheck(v, num_freq, trim_first_n, scale) ==
    ReshapeOutcome(v, num_freq, trim_first_n, scale)

\* lines 107-121
ValuesOutcome(v, num_freq, trim_first_n, scale) ==
    IF v = <<>> THEN Err("NoNumericValues", 0)
    ELSE ReshapeOutcome(v, num_freq, trim_first_n, scale)

\* The whole function: its return value or the exception it raises.
read_lcr_csv_lcr6300(f, a) ==
    IF ~f.exists THEN Err("FileNotFound", 0)
    ELSE LET hidx == FindHeader(f.lines, a.col_name)
             dl == CollectDataLines(f.lines, hidx)
             cidx == ColIndex(f.lines, hidx, a.col_name, a.fallback_col_index)
         IN  IF dl = <<>> THEN Err("NoDataLines", 0)
             ELSE ValuesOutcome(ExtractValues(dl, cidx), a.num_freq,
                                a.trim_first_n, a.scale)

-----------------------------------------------------------------------------
(* Input files                                                             *)

MaxChunks == 3
MaxRows == 5

\* 'Z(OHM)'
ColName == <<"Z", "(", "O", "H", "M", ")">>
\* 1e-3
Scale == <<1, 1000>>

\* F, "Z(OHM)",Z(OHM)      label at fields 1 and 2, field 1 quoted and padded
HdrLine == <<"F", ",", " ", "\"">> \o ColName \o <<"\"", ",">> \o ColName
\* +Z(OHM)X," Z(OHM)"      label only inside longer fields; starts with '+'
HdrSubLine == <<"+">> \o ColName \o <<"X", ",", "\"", " ">> \o ColName \o <<"\"">>
\* +1,+2,+3
DataPlus == <<"+", "1", ",", "+", "2", ",", "+", "3">>
\*  4,"5",6
DataQuoted == <<" ", "4", ",", "\"", "5", "\"", ",", "6">>
\* -7,++8,x
DataOdd == <<"-", "7", ",", "+", "+", "8", ",", "x">>
\* +2,1.5E+01,+25e-1
DataSci == <<"+", "2", ",", "1", ".", "5", "E", "+", "0", "1", ",",
             "+", "2", "5", "e", "-", "1">>
\* +9
ShortRow == <<"+", "9">>
BlankLine == <<" ">>
TextLine == <<"L", "C", "R">>

Preamble(n) == [k \in 1..n |-> TextLine]

Chunks ==
    { <<HdrLine>>, <<HdrSubLine>>, <<DataPlus>>, <<DataQuoted>>, <<DataOdd>>,
      <<DataSci>>, <<ShortRow>>, <<BlankLine>>,
      Preamble(HeaderWindow - 1), Preamble(HeaderWindow) }

RECURSIVE Flatten(_)
Flatten(cs) == IF cs = <<>> THEN <<>> ELSE cs[1] \o Flatten(Tail(cs))

\* Files with irregular content: up to MaxChunks chunks in any order.
FormatFiles ==
    UNION { { Flatten(cs) : cs \in [1..n -> Chunks] } : n \in 0..MaxChunks }

SweepRows == {DataPlus, DataQuoted, DataSci, ShortRow}

\* Files of clean sweeps: an optional header and up to MaxRows data rows.
SweepFiles ==
    UNION { { h \o rows : rows \in [1..n -> SweepRows] } : n \in 0..MaxRows,
                                                          h \in {<<>>, <<HdrLine>>} }

File(ls) == [exists |-> TRUE, lines |-> ls]
MissingFile == [exists |-> FALSE, lines |-> <<>>]

ParserFiles == { File(ls) : ls \in FormatFiles \cup SweepFiles } \cup {MissingFile}

NumFreqs == {1, 2}
TrimValues == {None, Some(-1), Some(1), Some(100)}
FallbackCols == {0, 2}

ParserArgs ==
    [num_freq : NumFreqs, trim_first_n : TrimValues, col_name : {ColName},
     fallback_col_index : FallbackCols, scale : {Scale}]

-----------------------------------------------------------------------------
(* One call of read_lcr_csv_lcr6300 as a state machine                     *)

NoResult == [kind |-> "none", vec |-> <<>>, len |-> 0]
NoArgs == [num_freq |-> 1, trim_first_n |-> None, col_name |-> <<>>,
           fallback_col_index |-> 0, scale |-> <<1, 1>>]

BatchIdle ==
    /\ fsys = <<>> /\ bpc = "idle" /\ fi = 0 /\ loaded = <<>> /\ log = <<>>
    /\ processed = {}

InitParse ==
    /\ file \in ParserFiles
    /\ args = NoArgs
    /\ pc = "call"
    /\ header_idx = None
    /\ data_lines = <<>>
    /\ col_index = 0
    /\ values = <<>>
    /\ result = NoResult
    /\ BatchIdle

\* lines 45-56: bind the arguments, check the path, read the lines
Call ==
    /\ pc = "call"
    /\ \E a \in ParserArgs : args' = a
    /\ IF file.exists
       THEN pc' = "find_header" /\ result' = result
       ELSE pc' = "raised" /\ result' = Err("FileNotFound", 0)
    /\ UNCHANGED <<file, header_idx, data_lines, col_index, values>>
    /\ UNCHANGED bvars

\* lines 58-63
FindHeaderStep ==
    /\ pc = "find_header"
    /\ header_idx' = FindHeader(file.lines, args.col_name)
    /\ pc' = "collect"
    /\ UNCHANGED <<file, args, data_lines, col_index, values, result>>
    /\ UNCHANGED bvars

\* lines 65-82
CollectStep ==
    /\ pc = "collect"
    /\ data_lines' = CollectDataLines(file.lines, header_idx)
    /\ IF data_lines' = <<>>
       THEN pc' = "raised" /\ result' = Err("NoDataLines", 0)
       ELSE pc' = "column" /\ result' = result
    /\ UNCHANGED <<file, args, header_idx, col_index, values>>
    /\ UNCHANGED bvars

\* lines 84-89
ColumnStep ==
    /\ pc = "column"
    /\ col_index' = ColIndex(file.lines, header_idx, args.col_name,
                             args.fallback_col_index)
    /\ pc' = "extract"
    /\ UNCHANGED <<file, args, header_idx, data_lines, values, result>>
    /\ UNCHANGED bvars

\* lines 91-105
ExtractStep ==
    /\ pc = "extract"
    /\ values' = ExtractValues(data_lines, col_index)
    /\ pc' = "reshape"
    /\ UNCHANGED <<file, args, header_idx, data_lines, col_index, result>>
    /\ UNCHANGED bvars

\* lines 107-121
ReshapeStep ==
    /\ pc = "reshape"
    /\ result' = ValuesOutcome(values, args.num_freq, args.trim_first_n, args.scale)
    /\ pc' = IF result'.kind = "ok" THEN "returned" ELSE "raised"
    /\ UNCHANGED <<file, args, header_idx, data_lines, col_index, values>>
    /\ UNCHANGED bvars


-----------------------------------------------------------------------------
(* The batch script: load loop, synthetic fallback, hand-over              *)

MaxExisting == 2

TO_LOAD == <<"LIST0423.CSV", "LIST0424.CSV", "LIST0009.CSV", "LIST0022.CSV",
             "LIST0032.CSV", "LIST0042.CSV", "LIST0052.CSV", "LIST0096.CSV">>

FileNames == { TO_LOAD[k] : k \in 1..Len(TO_LOAD) }

\* np.arange(10, 101, 10)
freq == [k \in 1..10 |-> 10 * k]

\* the arguments of the call at line 131
BatchArgs ==
    [num_freq |-> 10, trim_first_n |-> Some(100), col_name |-> ColName,
     fallback_col_index |-> 2, scale |-> Scale]

DigitChar(n) ==
    CASE n = 0 -> "0" [] n = 1 -> "1" [] n = 2 -> "2" [] n = 3 -> "3"
      [] n = 4 -> "4" [] n = 5 -> "5" [] n = 6 -> "6" [] n = 7 -> "7"
      [] n = 8 -> "8" [] n = 9 -> "9"

\* +a,+b,+c with a = k mod 10, b = a + 1, c = a + 2 (mod 10)
SweepRow(k) ==
    <<"+", DigitChar(k % 10), ",", "+", DigitChar((k + 1) % 10), ",",
      "+", DigitChar((k + 2) % 10)>>

SweepRowsFrom(k, n) == [i \in 1..n |-> SweepRow(k + i)]

BatchFiles ==
    { File(<<HdrLine>> \o SweepRowsFrom(0, 10)),   \* header, one sweep
      File(SweepRowsFrom(3, 21)),                  \* no header, two sweeps + 1
      File(<<HdrLine>> \o SweepRowsFrom(0, 9)),    \* one value short of a sweep
      File(<<HdrLine, ShortRow, ShortRow>>),       \* rows but no numeric value
      File(Preamble(2)) }                          \* no data line

FileSystems ==
    { fs \in [FileNames -> BatchFiles \cup {MissingFile}] :
        Cardinality({ n \in FileNames : fs[n].exists }) <= MaxExisting }

ParserIdle ==
    /\ file = MissingFile /\ args = NoArgs /\ pc = "idle" /\ header_idx = None
    /\ data_lines = <<>> /\ col_index = 0 /\ values = <<>> /\ result = NoResult

InitBatch ==
    /\ fsys \in FileSystems
    /\ bpc = "load"
    /\ fi = 0
    /\ loaded = <<>>
    /\ log = <<>>
    /\ processed = {}
    /\ ParserIdle

\* loaded[fn] = avg
Store(ld, fn, avg) ==
    [n \in DOMAIN ld \cup {fn} |-> IF n = fn THEN avg ELSE ld[n]]

Printed(what, fn) == [msg |-> what, name |-> fn]

\* Variant: a parse failure ends the loop.
LoadIteration_BreakOnError ==
    /\ bpc = "load"
    /\ fi < Len(TO_LOAD)
    /\ LET fn == TO_LOAD[fi + 1]
           r == read_lcr_csv_lcr6300(fsys[fn], BatchArgs)
           failed == fsys[fn].exists /\ r.kind # "ok"
       IN  /\ IF ~fsys[fn].exists
              THEN /\ log' = Append(log, Printed("NOT FOUND (skipped)", fn))
                   /\ loaded' = loaded
              ELSE IF r.kind = "ok"
              THEN /\ loaded' = Store(loaded, fn, r.vec)
                   /\ log' = Append(log, Printed("Loaded", fn))
              ELSE /\ log' = Append(log, Printed("Error reading", fn))
                   /\ loaded' = loaded
           /\ fi' = fi + 1
           /\ bpc' = IF failed \/ fi' = Len(TO_LOAD) THEN "fallback" ELSE "load"
    /\ UNCHANGED <<fsys, processed>>
    /\ UNCHANGED pvars

\* lines 125-135: one iteration of `for fn in TO_LOAD`
LoadIteration ==
    /\ bpc = "load"
    /\ fi < Len(TO_LOAD)
    /\ LET fn == TO_LOAD[fi + 1]
           r == read_lcr_csv_lcr6300(fsys[fn], BatchArgs)
       IN  IF ~fsys[fn].exists
           THEN /\ log' = Append(log, Printed("NOT FOUND (skipped)", fn))
                /\ loaded' = loaded
           ELSE IF r.kind = "ok"
           THEN /\ loaded' = Store(loaded, fn, r.vec)
                /\ log' = Append(log, Printed("Loaded", fn))
           ELSE /\ log' = Append(log, Printed("Error reading", fn))
                /\ loaded' = loaded
    /\ fi' = fi + 1
    /\ bpc' = IF fi' = Len(TO_LOAD) THEN "fallback" ELSE "load"
    /\ UNCHANGED <<fsys, processed>>
    /\ UNCHANGED pvars

\* lines 139-144
SyntheticData ==
    LET base == [k \in 1..Len(freq) |-> RAdd(<<20, 1>>, RMul(<<3, 10>>, <<freq[k], 1>>))]
        times(v, x) == [k \in 1..Len(v) |-> RMul(v[k], x)]
        names == {"demo_baseline", "demo_postwash", "demo_hydrogel"}
    IN  [n \in names |->
            IF n = "demo_baseline" THEN base
            ELSE IF n = "demo_postwash" THEN times(base, <<5, 4>>)
            ELSE times(base, <<9, 10>>)]

\* Variant: the emptiness test is inverted.
SyntheticFallback_Inverted ==
    /\ bpc = "fallback"
    /\ loaded' = IF DOMAIN loaded # {} THEN SyntheticData ELSE loaded
    /\ bpc' = "save"
    /\ UNCHANGED <<fsys, fi, log, processed>>
    /\ UNCHANGED pvars

\* lines 137-144
SyntheticFallback ==
    /\ bpc = "fallback"
    /\ loaded' = IF DOMAIN loaded = {} THEN SyntheticData ELSE loaded
    /\ bpc' = "save"
    /\ UNCHANGED <<fsys, fi, log, processed>>
    /\ UNCHANGED pvars

\* lines 146-195: every entry is paired with freq, written and plotted
Downstream ==
    /\ bpc = "save"
    /\ processed' = DOMAIN loaded
    /\ bpc' = "done"
    /\ UNCHANGED <<fsys, fi, loaded, log>>
    /\ UNCHANGED pvars

Init == InitParse \/ InitBatch

Next ==
    \/ Call
    \/ FindHeaderStep
    \/ CollectStep
    \/ ColumnStep
    \/ ExtractStep
    \/ ReshapeStep
    \/ LoadIteration
    \/ SyntheticFallback
    \/ Downstream

Spec == Init /\ [][Next]_vars

-----------------------------------------------------------------------------
(* Properties                                                              *)

\* The call has finished, by return or by exception.
Finished == pc \in {"returned", "raised"}
\* The call got past the no-data check, so col_index is set.
PastColumn == pc \in {"extract", "reshape", "returned"} \/ (pc = "raised" /\ data_lines # <<>>)

Min(S) == CHOOSE x \in S : \A y \in S : x <= y

\* 0-based indices of the lines within the first 40 that contain the label
LabelLinesInWindow ==
    { i \in 0..(Len(file.lines) - 1) :
        i < HeaderWindow /\ Contains(file.lines[i + 1], args.col_name) }

FirstChar(ln) == LStrip(ln, Whitespace)[1]
NonBlank(ln) == LStrip(ln, Whitespace) # <<>>
PlusLine(ln) == NonBlank(ln) /\ FirstChar(ln) = "+"
SignOrDigitLine(ln) == NonBlank(ln) /\ FirstChar(ln) \in {"+", "-"} \cup DigitChars

\* sum over r in 0..R-1 of v[r*nf + j], j 0-based
RECURSIVE BlockColumnSum(_, _, _, _)
BlockColumnSum(v, nf, j, R) ==
    IF R = 0 THEN <<0, 1>>
    ELSE RAdd(BlockColumnSum(v, nf, j, R - 1), v[(R - 1) * nf + j + 1])

\* C1: when n >= num_freq values were extracted, the call returns a vector
\* with out[j] = scale * (sum over the R = n div num_freq blocks of column j) / R;
\* the values after the first R * num_freq do not enter.
C1_BlockMean ==
    (Finished /\ Len(values) >= args.num_freq) =>
        LET nf == args.num_freq
            R == Len(values) \div nf
        IN  /\ result.kind = "ok"
            /\ DOMAIN result.vec = 1..nf
            /\ \A j \in 0..(nf - 1) :
                 RMul(result.vec[j + 1], <<R, 1>>) =
                     RMul(args.scale, BlockColumnSum(values, nf, j, R))

C1_Witness ==
    /\ pc = "returned"
    /\ args.num_freq = 2
    /\ Len(values) = 5
    /\ values[1] # values[2] /\ values[1] # values[3]

\* C2: a call that returns normally returns exactly num_freq elements, and
\* every entry of `loaded` that came from a real file has 10 elements.
C2_VectorLength ==
    /\ pc = "returned" => Len(result.vec) = args.num_freq
    /\ \A fn \in DOMAIN loaded \cap FileNames : Len(loaded[fn]) = 10

C2_Witness ==
    /\ pc = "returned"
    /\ args.num_freq = 2
    /\ Len(values) % 2 = 1
    /\ Len(values) > 2
    /\ Len(data_lines) > Len(values)

\* C3: when the load loop ends every configured file has been examined, in
\* order, and `loaded` maps exactly the files that exist and parse to their
\* own parse result.
C3_LoopCompletes ==
    bpc = "fallback" =>
        LET parsed(fn) == read_lcr_csv_lcr6300(fsys[fn], BatchArgs)
        IN  /\ Len(log) = Len(TO_LOAD)
            /\ \A k \in 1..Len(TO_LOAD) : log[k].name = TO_LOAD[k]
            /\ DOMAIN loaded =
                 { fn \in FileNames : fsys[fn].exists /\ parsed(fn).kind = "ok" }
            /\ \A fn \in DOMAIN loaded : loaded[fn] = parsed(fn).vec

C3_Witness ==
    /\ bpc = "fallback"
    /\ \E i, j \in 1..Len(log) :
         /\ i < j
         /\ log[i].msg = "Error reading"
         /\ log[j].msg = "Loaded"
    /\ \E k \in 1..Len(log) : log[k].msg = "NOT FOUND (skipped)"

\* C4: after the fallback step the mapping is never empty, and when no
\* configured file was loaded it is exactly the three demo entries, each of
\* 10 values: 20 + 0.3 f, and that times 1.25 and times 0.9.
C4_SyntheticFallback ==
    bpc \in {"save", "done"} =>
        /\ DOMAIN loaded # {}
        /\ (\A fn \in FileNames :
               ~fsys[fn].exists \/ read_lcr_csv_lcr6300(fsys[fn], BatchArgs).kind # "ok")
           => /\ DOMAIN loaded = {"demo_baseline", "demo_postwash", "demo_hydrogel"}
              /\ \A n \in DOMAIN loaded : DOMAIN loaded[n] = 1..10
              /\ \A k \in 1..10 :
                   /\ loaded["demo_baseline"][k] = <<20 + 3 * k, 1>>
                   /\ RMul(loaded["demo_postwash"][k], <<4, 1>>) = <<5 * (20 + 3 * k), 1>>
                   /\ RMul(loaded["demo_hydrogel"][k], <<10, 1>>) = <<9 * (20 + 3 * k), 1>>

C4_Witness ==
    /\ bpc = "save"
    /\ \E fn \in FileNames : fsys[fn].exists
    /\ \E fn \in FileNames : ~fsys[fn].exists
    /\ "demo_baseline" \in DOMAIN loaded

\* The candidate data lines of the file that have fewer than col_index + 1
\* comma-separated fields, as 1-based line numbers.
ShortDataRows ==
    LET L == file.lines
        hidx == FindHeader(L, args.col_name)
        cidx == ColIndex(L, hidx, args.col_name, args.fallback_col_index)
        candidate(k) == IF hidx # None
                        THEN k > hidx[1] + 1 /\ SignOrDigitLine(L[k])
                        ELSE PlusLine(L[k])
    IN  { k \in 1..Len(L) : candidate(k) /\ Len(Split(L[k])) < cidx + 1 }

RECURSIVE DeleteLines(_, _, _)
DeleteLines(L, k, D) ==
    IF k > Len(L) THEN <<>>
    ELSE (IF k \in D THEN <<>> ELSE <<L[k]>>) \o DeleteLines(L, k + 1, D)

WithoutShortRows == File(DeleteLines(file.lines, 1, ShortDataRows))

\* C5 as stated: the outcome of a file equals the outcome of the same file
\* with its short data rows deleted.
C5_Original ==
    (Finished /\ file.exists) =>
        result = read_lcr_csv_lcr6300(WithoutShortRows, args)

\* C5 amended: short data rows add nothing to the extracted values; when
\* deleting them leaves header detection unchanged (always so once a header
\* was found) the value sequence is the same, and the outcome is the same
\* except that a file whose candidate rows are all short raises the
\* no-numeric-values error while the file without them raises the no-data error.
C5_Amended ==
    (Finished /\ file.exists) =>
        LET d == WithoutShortRows
            hd == FindHeader(d.lines, args.col_name)
            cd == ColIndex(d.lines, hd, args.col_name, args.fallback_col_index)
            rd == read_lcr_csv_lcr6300(d, args)
        IN  /\ header_idx # None => hd = header_idx
            /\ hd = header_idx =>
                 /\ data_lines # <<>> =>
                      ExtractValues(CollectDataLines(d.lines, hd), cd) = values
                 /\ \/ rd = result
                    \/ /\ result.kind = "NoNumericValues"
                       /\ rd.kind = "NoDataLines"
                       /\ Len(data_lines) = Cardinality(ShortDataRows)

C5_Witness ==
    /\ pc = "returned"
    /\ ShortDataRows # {}
    /\ FindHeader(WithoutShortRows.lines, args.col_name) = header_idx
    /\ Len(values) >= 2

\* C6: an existing file fails with the no-data error exactly when, in
\* header mode, no non-blank line after the header starts with '+', '-' or
\* a digit, and, without a header, no line starts with '+'.
C6_NoDataExactly ==
    (Finished /\ file.exists) =>
        LET L == file.lines
            H == LabelLinesInWindow
            empty == IF H # {}
                     THEN \A k \in (Min(H) + 2)..Len(L) : ~SignOrDigitLine(L[k])
                     ELSE \A k \in 1..Len(L) : ~PlusLine(L[k])
        IN  result.kind = "NoDataLines" <=> empty

C6_Witness ==
    /\ pc = "raised"
    /\ result.kind = "NoDataLines"
    /\ header_idx = None
    /\ \E k \in 1..Len(file.lines) :
         NonBlank(file.lines[k]) /\ FirstChar(file.lines[k]) \in DigitChars
    /\ \E k \in 1..Len(file.lines) :
         NonBlank(file.lines[k]) /\ FirstChar(file.lines[k]) = "-"

\* C7: with candidate lines present, 1..num_freq-1 extracted values give
\* the reshape error when trim_first_n is absent or smaller than num_freq,
\* and zero extracted values give the no-numeric-values error.
C7_TooFewValues ==
    (Finished /\ data_lines # <<>>) =>
        /\ Len(values) = 0 => result.kind = "NoNumericValues"
        /\ ( /\ Len(values) >= 1
             /\ Len(values) < args.num_freq
             /\ (args.trim_first_n = None \/ args.trim_first_n[1] < args.num_freq) )
           => result.kind = "NotEnoughRows"

C7_Witness ==
    /\ pc = "raised"
    /\ result.kind = "NotEnoughRows"
    /\ Len(values) = 1
    /\ args.num_freq = 2
    /\ args.trim_first_n = Some(1)

\* C8: the header is the lowest-index line among the first 40 that contains
\* the label; when the label occurs only at index 40 or later the data lines
\* are the '+' lines of the whole file and the column is the fallback index.
C8_HeaderWindow ==
    (file.exists /\ pc \notin {"call", "find_header"}) =>
        LET L == file.lines
            H == LabelLinesInWindow
            late == \E i \in HeaderWindow..(Len(L) - 1) : Contains(L[i + 1], args.col_name)
        IN  /\ header_idx = IF H # {} THEN Some(Min(H)) ELSE None
            /\ (H = {} /\ late /\ pc # "collect") =>
                 data_lines = SelectSeq(L, PlusLine)
            /\ (H = {} /\ late /\ PastColumn) =>
                 col_index = args.fallback_col_index

C8_Witness ==
    /\ Finished
    /\ data_lines # <<>>
    /\ header_idx = None
    /\ \E i \in HeaderWindow..(Len(file.lines) - 1) :
         Contains(file.lines[i + 1], args.col_name)
    /\ \E k \in 1..Len(file.lines) : ~PlusLine(file.lines[k]) /\ SignOrDigitLine(file.lines[k])

\* C9: with a header, the column is the position of the first header field
\* equal to the label after stripping whitespace, then double quotes; with
\* no such field it is the fallback index, and the data lines are still the
\* sign-or-digit lines after the header.
C9_ColumnFromHeader ==
    (PastColumn /\ header_idx # None) =>
        LET L == file.lines
            h == header_idx[1] + 1
            fields == Split(L[h])
            norm(k) == StripChars(StripChars(fields[k], Whitespace), {"\""})
            M == { k \in 1..Len(fields) : norm(k) = args.col_name }
        IN  /\ M # {} => col_index = Min(M) - 1
            /\ M = {} =>
                 /\ col_index = args.fallback_col_index
                 /\ data_lines = SelectSeq(SubSeq(L, h + 1, Len(L)), SignOrDigitLine)

C9_Witness ==
    /\ pc = "returned"
    /\ header_idx # None
    /\ col_index = args.fallback_col_index
    /\ col_index = 2
    /\ Contains(file.lines[header_idx[1] + 1], args.col_name)

\* C10: the outcome of a call, vector or kind of error, is the one the same
\* call gives with trim_first_n absent; a reshape error means fewer than
\* num_freq values were extracted.
C10_TrimIrrelevant ==
    Finished =>
        LET r0 == read_lcr_csv_lcr6300(file, [args EXCEPT !.trim_first_n = None])
        IN  /\ result.kind = r0.kind
            /\ result.vec = r0.vec
            /\ result.kind = "NotEnoughRows" => Len(values) < args.num_freq

C10_Witness ==
    /\ pc = "returned"
    /\ args.trim_first_n = Some(1)
    /\ Len(values) >= 3
    /\ values[1] # values[2]

====
